---- MODULE Spec2Model ----
(***************************************************************************)
(* Model of vinAgent.js: the VIN / plate intelligence pipeline.            *)
(*                                                                         *)
(* A JavaScript string is a sequence of one-character strings.  A          *)
(* JavaScript object is a function from its keys to its values; a key      *)
(* whose value is undefined is a key outside the function's domain.        *)
(***************************************************************************)
EXTENDS Integers, Sequences, FiniteSets, TLC

VARIABLES
  q,          \* the CLI argument after --q= (line 202)
  hasKey,     \* process.env.TAVILY_API_KEY is set
  state,      \* the graph's channels: input, norm, aggregates
  pc,         \* the node the executor runs next, "__end__", or "aborted"
  inflight,   \* the collaborator call a node is awaiting, or "none"
  error,      \* the value a node threw; NoError while none was thrown
  caller,     \* app.invoke's promise: "pending", "then" or "catch"
  out,        \* what the caller's handler received
  started,    \* history: the nodes that began, in order
  finished,   \* history: the nodes whose patch was merged, in order
  calls,      \* history: the collaborator calls made, in order
  caught,     \* what the caller's catch handler received
  lastSet,    \* history: per aggregate field, the value of the last patch that set it
  answered,   \* history: the text model.invoke answered with, undefined before
  probe       \* a direct call of one helper: function, argument, result

vars == <<q, hasKey, state, pc, inflight, error, caller, out, caught,
          started, finished, calls, lastSet, answered, probe>>

\* ---------------------------------------------------------------- strings

Digits == <<"0","1","2","3","4","5","6","7","8","9">>
UpperSeq == <<"A","B","C","D","E","F","G","H","I","J","K","L","M",
              "N","O","P","Q","R","S","T","U","V","W","X","Y","Z">>
LowerSeq == <<"a","b","c","d","e","f","g","h","i","j","k","l","m",
              "n","o","p","q","r","s","t","u","v","w","x","y","z">>

Range(s) == {s[i] : i \in DOMAIN s}

\* F applied to the value of the one element of S, computed once.
With(S, F(_)) == CHOOSE r \in {F(x) : x \in S} : TRUE

DigitChars == Range(Digits)
UpperChars == Range(UpperSeq)
LowerChars == Range(LowerSeq)

\* Characters outside ASCII are written by their code point.
CyrUpperChars == {"U+0410", "U+0412", "U+0406"}   \* Cyrillic A, Ve, Ukrainian I
CyrLowerChars == {"U+0430", "U+0432", "U+0456"}
SharpS == "U+00DF"                                \* upper-cases to "SS"
WhiteSpace == {" ", "\t"}

\* The JavaScript value undefined, where a string is expected.
undefined == <<"undefined">>

\* (x || '') for x a string or undefined
OrEmpty(x) == IF x = undefined \/ x = <<>> THEN <<>> ELSE x

IndexOf(seq, c) == CHOOSE i \in DOMAIN seq : seq[i] = c

\* String.prototype.toUpperCase, one character: the result may be longer.
UpperOfChar(c) ==
  IF c \in LowerChars THEN <<UpperSeq[IndexOf(LowerSeq, c)]>>
  ELSE IF c = "U+0430" THEN <<"U+0410">>
  ELSE IF c = "U+0432" THEN <<"U+0412">>
  ELSE IF c = "U+0456" THEN <<"U+0406">>
  ELSE IF c = SharpS THEN <<"S", "S">>
  ELSE <<c>>

RECURSIVE toUpperCase(_)
toUpperCase(s) ==
  IF s = <<>> THEN <<>> ELSE UpperOfChar(Head(s)) \o toUpperCase(Tail(s))

RECURSIVE trimStart(_)
trimStart(s) ==
  IF s # <<>> /\ Head(s) \in WhiteSpace THEN trimStart(Tail(s)) ELSE s

RECURSIVE trimEnd(_)
trimEnd(s) ==
  IF s # <<>> /\ s[Len(s)] \in WhiteSpace
  THEN trimEnd(SubSeq(s, 1, Len(s) - 1)) ELSE s

trim(s) == trimEnd(trimStart(s))

\* /[^A-Za-z0-9]/g : the characters the pattern does NOT match
NON_ALNUM_Kept == UpperChars \cup LowerChars \cup DigitChars

IsKept(c) == c \in NON_ALNUM_Kept

\* A slip: the pattern without its g flag, so only the first match goes.
StripFirstNonAlnum(s) ==
  LET bad == {i \in DOMAIN s : ~ IsKept(s[i])}
  IN  IF bad = {} THEN s
      ELSE LET i == CHOOSE k \in bad : \A j \in bad : k <= j
           IN  SubSeq(s, 1, i - 1) \o SubSeq(s, i + 1, Len(s))

\* s.replace(NON_ALNUM, '')
StripNonAlnum(s) == SelectSeq(s, IsKept)

\* ---------------------------------------------------------------- helpers

VinLen == 17
PlateMin == 5
PlateMax == 10
Modulus == 11
CheckIndex == 8

\* [A-HJ-NPR-Z0-9]
VinAlphabet == (UpperChars \ {"I", "O", "Q"}) \cup DigitChars

\* /^[A-HJ-NPR-Z0-9]{17}$/.test(v)
VinPattern(v) == Len(v) = VinLen /\ \A i \in DOMAIN v : v[i] \in VinAlphabet

\* [A-Z<Cyrillic capitals>0-9]
PlateClass == UpperChars \cup CyrUpperChars \cup DigitChars

\* /^[A-Z...0-9]{5,10}$/.test(v)
PlatePattern(v) ==
  /\ Len(v) >= PlateMin
  /\ Len(v) <= PlateMax
  /\ \A i \in DOMAIN v : v[i] \in PlateClass

translit ==
  ("A" :> 1) @@ ("B" :> 2) @@ ("C" :> 3) @@ ("D" :> 4) @@ ("E" :> 5) @@
  ("F" :> 6) @@ ("G" :> 7) @@ ("H" :> 8) @@ ("J" :> 1) @@ ("K" :> 2) @@
  ("L" :> 3) @@ ("M" :> 4) @@ ("N" :> 5) @@ ("P" :> 7) @@ ("R" :> 9) @@
  ("S" :> 2) @@ ("T" :> 3) @@ ("U" :> 4) @@ ("V" :> 5) @@ ("W" :> 6) @@
  ("X" :> 7) @@ ("Y" :> 8) @@ ("Z" :> 9) @@
  ("0" :> 0) @@ ("1" :> 1) @@ ("2" :> 2) @@ ("3" :> 3) @@ ("4" :> 4) @@
  ("5" :> 5) @@ ("6" :> 6) @@ ("7" :> 7) @@ ("8" :> 8) @@ ("9" :> 9)

\* A slip: the weight 10 of position 7 written as 1.
weightsSlip == <<8, 7, 6, 5, 4, 3, 2, 1, 0, 9, 8, 7, 6, 5, 4, 3, 2>>

weights == <<8, 7, 6, 5, 4, 3, 2, 10, 0, 9, 8, 7, 6, 5, 4, 3, 2>>

\* (translit[ch] ?? 0)
TranslitOr0(ch) == IF ch \in DOMAIN translit THEN translit[ch] ELSE 0

\* vin.split('').reduce((acc, ch, i) => acc + (translit[ch] ?? 0) * weights[i], 0)
\* over the first n characters; weights[i] is weights[i + 1] here.
RECURSIVE WeightedSum(_, _)
WeightedSum(vin, n) ==
  IF n = 0 THEN 0
  ELSE WeightedSum(vin, n - 1) + TranslitOr0(vin[n]) * weights[n]

\* String(remainder) for 0 <= remainder <= 9
DigitString(n) == Digits[n + 1]

vinChecksumValid(vin) ==
  IF ~VinPattern(vin) THEN FALSE
  ELSE LET sum == WeightedSum(vin, Len(vin))
           remainder == sum % Modulus
           check == IF remainder = 10 THEN "X" ELSE DigitString(remainder)
       IN  vin[CheckIndex + 1] = check

\* A slip: the shape alone decides.
isLikelyVINByShape(v) == VinPattern(v)

isLikelyVIN(v) == VinPattern(v) /\ vinChecksumValid(v)

\* normalizeQuery once v, the cleaned text, is computed
Classify(v) ==
  IF isLikelyVIN(v) THEN [kind |-> "vin", value |-> v]
  ELSE IF PlatePattern(v) THEN [kind |-> "plate", value |-> v]
  ELSE [kind |-> "unknown", value |-> v]

\* A slip: the text is not upper-cased.
normalizeQueryAsTyped(x) ==
  With({StripNonAlnum(trim(OrEmpty(x)))}, Classify)

normalizeQuery(x) ==
  With({StripNonAlnum(toUpperCase(trim(OrEmpty(x))))}, Classify)

\* ---------------------------------------------------------------- constants of the program

RISK_KEYWORDS == <<
  <<"s","a","l","v","a","g","e">>,
  <<"t","o","t","a","l","e","d">>,
  <<"a","c","c","i","d","e","n","t">>,
  <<"c","r","a","s","h">>,
  <<"f","l","o","o","d">>,
  <<"h","a","i","l">>,
  <<"f","i","r","e">>,
  <<"t","h","e","f","t">>,
  <<"s","t","o","l","e","n">>,
  <<"c","o","p","a","r","t">>,
  <<"i","a","a","i">>,
  <<"a","u","c","t","i","o","n">>,
  <<"o","d","o","m","e","t","e","r"," ","r","o","l","l","b","a","c","k">>,
  <<"m","i","l","e","a","g","e"," ","r","o","l","l","b","a","c","k">>,
  <<"w","r","i","t","e","-","o","f","f">>,
  <<"d","a","m","a","g","e","d">>,
  <<"r","e","p","a","i","r","a","b","l","e">>
>>

\* /copart|iaai|auction|salvage/i : the alternatives of the pattern
AuctionPattern == <<
  <<"c","o","p","a","r","t">>,
  <<"i","a","a","i">>,
  <<"a","u","c","t","i","o","n">>,
  <<"s","a","l","v","a","g","e">>
>>

MULTIPLE_AUCTIONS == <<"m","u","l","t","i","p","l","e","_","a","u","c","t","i","o","n","s">>
NHTSA_DECODED == <<"N","H","T","S","A"," ","d","e","c","o","d","e","d">>
NO_DECODE == <<"n","o"," ","d","e","c","o","d","e">>
HITS_SUFFIX == <<" ","h","i","t","s">>
NO_HITS == <<"n","o"," ","h","i","t","s">>
NONE_NOTE == <<"n","o","n","e">>
\* A slip: the labels joined without the space.
JOIN_SEP_Comma == <<",">>
JOIN_SEP == <<","," ">>

\* The text of each object key, as JSON.stringify writes it.
KeyText ==
  ("title" :> <<"t","i","t","l","e">>) @@
  ("link" :> <<"l","i","n","k">>) @@
  ("snippet" :> <<"s","n","i","p","p","e","t">>) @@
  ("Results" :> <<"R","e","s","u","l","t","s">>) @@
  ("Make" :> <<"M","a","k","e">>) @@
  ("Model" :> <<"M","o","d","e","l">>) @@
  ("ModelYear" :> <<"M","o","d","e","l","Y","e","a","r">>) @@
  ("BodyClass" :> <<"B","o","d","y","C","l","a","s","s">>) @@
  ("VehicleType" :> <<"V","e","h","i","c","l","e","T","y","p","e">>) @@
  ("PlantCountry" :> <<"P","l","a","n","t","C","o","u","n","t","r","y">>) @@
  ("Note" :> <<"N","o","t","e">>)

\* ---------------------------------------------------------------- what the collaborators may answer

\* Tavily results: objects with the keys title, url, content (any may be missing).
TavilyCatalog == <<
  ( ("title" :> <<"L","o","t"," ","1">>) @@
     ("url" :> <<"h","t","t","p","s",":","/","/","w","w","w",".","c","o","p","a","r","t",".","c","o","m","/","x">>) @@
     ("content" :> <<"c","l","e","a","n">>) ),
  ( ("title" :> <<"L","o","t"," ","2">>) @@
     ("url" :> <<"h","t","t","p","s",":","/","/","w","w","w",".","i","a","a","i",".","c","o","m","/","y">>) @@
     ("content" :> <<"r","u","n","s">>) ),
  ( ("title" :> <<"A","d">>) @@
     ("url" :> <<"h","t","t","p","s",":","/","/","e","x",".","c","o","m","/","a","u","c","t","i","o","n","/","1">>) @@
     ("content" :> <<"s","e","d","a","n">>) ),
  ( ("title" :> <<"A","d"," ","2">>) @@
     ("url" :> <<"h","t","t","p","s",":","/","/","e","x",".","o","r","g","/","a","?","r","e","f","=","s","a","l","v","a","g","e">>) @@
     ("content" :> <<"c","o","u","p","e">>) ),
  ( ("title" :> <<"T","e","s","t">>) @@
     ("url" :> <<"h","t","t","p","s",":","/","/","e","x",".","n","e","t","/","b">>) @@
     ("content" :> <<"F","l","o","o","d"," ","D","A","M","A","G","E","D",","," ","f","i","r","e","-","r","a","t","e","d">>) ),
  ( ("title" :> <<"O","d","o","m","e","t","e","r"," ","R","o","l","l","b","a","c","k">>) @@
     ("content" :> <<"s","e","e","n">>) ),
  ( ("title" :> <<"S","p","e","c">>) @@
     ("url" :> <<"h","t","t","p","s",":","/","/","e","x",".","n","e","t","/","c">>) @@
     ("content" :> <<"b","l","u","e">>) ),
  ( ("title" :> <<"F","o","r","u","m">>) @@
     ("url" :> <<"h","t","t","p","s",":","/","/","e","x",".","n","e","t","/","d">>) @@
     ("content" :> <<"o","k">>) ),
  ( ("title" :> <<"W","i","k","i">>) @@
     ("url" :> <<"h","t","t","p","s",":","/","/","A","U","C","T","I","O","N",".","e","x","/","e">>) @@
     ("content" :> <<"n","/","a">>) )
>>

\* Rows of an NHTSA decode record: keys to strings (any may be missing).
RowFull ==
  ("Make" :> <<"H","O","N","D","A">>) @@
  ("Model" :> <<"A","c","c","o","r","d">>) @@
  ("ModelYear" :> <<"2","0","0","3">>) @@
  ("BodyClass" :> <<"S","e","d","a","n">>) @@
  ("VehicleType" :> <<"C","A","R">>) @@
  ("PlantCountry" :> <<"U","S","A">>)

RowNoModel ==
  ("Make" :> <<"H","O","N","D","A">>) @@
  ("Model" :> <<>>)

RowNote ==
  ("Make" :> <<"V","W">>) @@
  ("Model" :> <<"G","o","l","f">>) @@
  ("Note" :> <<"S","a","l","v","a","g","e"," ","t","i","t","l","e">>)


\* ---------------------------------------------------------------- objects and JSON

\* {} : the object with no keys
EmptyObj == [k \in {} |-> TRUE]

\* obj.k || dflt, for a value that is an object, an array or a non-empty string
GetOr(obj, k, dflt) == IF k \in DOMAIN obj THEN obj[k] ELSE dflt

\* obj.k || dflt, for a string value: the empty string is falsy too
GetStrOr(obj, k, dflt) ==
  IF k \in DOMAIN obj /\ obj[k] # <<>> THEN obj[k] ELSE dflt

\* { ...obj, k1: v1, ... } : the later keys win
Spread(obj, more) == more @@ obj

Min(a, b) == IF a < b THEN a ELSE b

RECURSIVE JoinFrom(_, _, _)
\* parts.slice(i - 1).join(sep)
JoinFrom(parts, sep, i) ==
  IF i > Len(parts) THEN <<>>
  ELSE IF i = Len(parts) THEN parts[i]
  ELSE parts[i] \o sep \o JoinFrom(parts, sep, i + 1)

\* parts.join(sep)
Join(parts, sep) ==
  LET All(p) == JoinFrom(p, sep, 1)
  IN  With({parts}, All)

\* JSON.stringify of a string with no character that needs escaping
JsonString(s) == <<"\"">> \o s \o <<"\"">>

\* JSON.stringify of an object whose values are strings, its keys in insertion
\* order; a key with the value undefined is left out.
JsonStringObject(obj, order) ==
  LET Has(k) == k \in DOMAIN obj
      keys == SelectSeq(order, Has)
      members == [i \in 1..Len(keys) |->
                    JsonString(KeyText[keys[i]]) \o <<":">> \o JsonString(obj[keys[i]])]
  IN  <<"{">> \o Join(members, <<",">>) \o <<"}">>

\* JSON.stringify of an array of such objects
JsonArray(arr, order) ==
  <<"[">> \o Join([i \in 1..Len(arr) |-> JsonStringObject(arr[i], order)], <<",">>)
          \o <<"]">>

HitKeys == <<"title", "link", "snippet">>
RowKeys == <<"Make", "Model", "ModelYear", "BodyClass", "VehicleType",
             "PlantCountry", "Note">>

\* JSON.stringify(aggregates.nhtsa || {})
JsonNhtsa(nhtsa) ==
  IF "Results" \in DOMAIN nhtsa
  THEN <<"{">> \o JsonString(KeyText["Results"]) \o <<":">>
               \o JsonArray(nhtsa["Results"], RowKeys) \o <<"}">>
  ELSE <<"{", "}">>

\* String.prototype.toLowerCase, one character (the texts here are ASCII)
LowerOfChar(c) == IF c \in UpperChars THEN LowerSeq[IndexOf(UpperSeq, c)] ELSE c

toLowerCase(s) ==
  LET Lower(t) == [i \in 1..Len(t) |-> LowerOfChar(t[i])]
  IN  With({s}, Lower)

\* text.includes(kw)
Includes(text, kw) ==
  \E t \in {text} :
    \E i \in 1..(Len(t) - Len(kw) + 1) :
      \A j \in 1..Len(kw) : t[i + j - 1] = kw[j]

\* String(n) for 0 <= n <= 99
NumString(n) ==
  IF n < 10 THEN <<Digits[n + 1]>>
  ELSE <<Digits[(n \div 10) + 1], Digits[(n % 10) + 1]>>

\* set.add(x) on a Set kept in insertion order
SetAdd(set, x) == IF x \in Range(set) THEN set ELSE Append(set, x)

\* ---------------------------------------------------------------- external calls

TimeoutMs == 20000

\* What axios.get rejects with: no answer within the timeout, or a non-2xx status.
AxiosTimeout ==
  [name |-> "AxiosError", message |-> "timeout of 20000ms exceeded", code |-> "ECONNABORTED"]
AxiosBadStatus ==
  [name |-> "AxiosError", message |-> "Request failed with status code 500",
   code |-> "ERR_BAD_RESPONSE"]
DecodeErrors == {AxiosTimeout, AxiosBadStatus}

\* throw new Error('Set TAVILY_API_KEY')
MissingKeyError == [name |-> "Error", message |-> "Set TAVILY_API_KEY", code |-> ""]

\* What tv.search and model.invoke reject with.
SearchErrors == {[name |-> "Error", message |-> "search request failed", code |-> ""]}
ModelErrors  == {[name |-> "Error", message |-> "completion request failed", code |-> ""]}

NoError == [name |-> "", message |-> "", code |-> ""]

\* The data of an NHTSA answer: Results may be missing, empty, or hold one row.
DecodeResponses ==
  { EmptyObj,
    [Results |-> <<>>],
    [Results |-> <<RowFull>>],
    [Results |-> <<RowNoModel>>],
    [Results |-> <<RowNote>>] }

MaxHits == 2

\* The answers of tv.search: results missing, every run of at most MaxHits
\* consecutive catalog entries, and the whole catalog.
Windows ==
  { SubSeq(TavilyCatalog, i, Min(i + n - 1, Len(TavilyCatalog))) :
      i \in 1..Len(TavilyCatalog), n \in 0..MaxHits }
SearchResponses ==
  {EmptyObj} \cup {[results |-> w] : w \in Windows \cup {TavilyCatalog}}

\* The answers of model.invoke
ModelResponses == {[content |-> <<"o","k">>], [content |-> <<>>]}

\* r => ({ title: r.title, link: r.url, snippet: r.content })
HitOf(r) ==
  [k \in {kk \in {"title", "link", "snippet"} :
            (CASE kk = "title" -> "title" [] kk = "link" -> "url" [] OTHER -> "content")
              \in DOMAIN r} |->
     r[CASE k = "title" -> "title" [] k = "link" -> "url" [] OTHER -> "content"]]

\* webSearch, after tv.search answered res: (res.results || []).map(...)
webSearch(res) ==
  LET results == GetOr(res, "results", <<>>)
  IN  [i \in 1..Len(results) |-> HitOf(results[i])]

\* ---------------------------------------------------------------- nodes
\* Each node takes the graph state and returns its patch: the channels it sets.

\* nodeNormalize once norm is computed
NormalizePatch(s, norm) ==
  LET base == GetOr(s, "aggregates", EmptyObj)
      withVin ==
        IF norm.kind = "vin"
        THEN Spread(base, ("vin" :> norm.value) @@
                          ("vinValid" :> vinChecksumValid(norm.value)))
        ELSE base
      aggregates ==
        IF norm.kind = "plate" THEN Spread(withVin, "plate" :> norm.value)
        ELSE withVin
  IN  ("norm" :> norm) @@ ("aggregates" :> aggregates)

nodeNormalize(s) ==
  LET Patch(norm) == NormalizePatch(s, norm)
  IN  With({normalizeQuery(s["input"].q)}, Patch)

\* A slip: only the unknown kind skips the decode.
VinInfoSkipsUnknown(s) == s["norm"].kind = "unknown"

\* norm.kind !== 'vin' || !aggregates.vin
VinInfoSkips(s) ==
  s["norm"].kind # "vin" \/ GetStrOr(s["aggregates"], "vin", <<>>) = <<>>

FactKeys == {"Make", "Model", "ModelYear", "BodyClass", "VehicleType", "PlantCountry"}

\* nodeVinInfo after nhtsaDecodeVin answered nhtsa
nodeVinInfo(s, nhtsa) ==
  LET aggregates == s["aggregates"]
      base == GetOr(aggregates, "facts", EmptyObj)
      results == GetOr(nhtsa, "Results", <<>>)
      row == IF Len(results) >= 1 THEN results[1] ELSE EmptyObj
      facts == [k \in (DOMAIN base \ FactKeys) \cup (FactKeys \cap DOMAIN row) |->
                  IF k \in FactKeys THEN row[k] ELSE base[k]]
  IN  "aggregates" :> Spread(aggregates, ("nhtsa" :> nhtsa) @@ ("facts" :> facts))

\* A slip: the search is made with the text as typed.
SearchQueryAsTyped(s) == s["input"].q

\* norm.kind === 'vin' ? aggregates.vin : (aggregates.plate || input.q)
SearchQuery(s) ==
  IF s["norm"].kind = "vin" THEN GetOr(s["aggregates"], "vin", undefined)
  ELSE GetStrOr(s["aggregates"], "plate", s["input"].q)

\* nodeWebSearch after webSearch returned webHits
nodeWebSearch(s, webHits) ==
  "aggregates" :> Spread(s["aggregates"], "webHits" :> webHits)

\* /copart|iaai|auction|salvage/i.test(link)
AuctionTest(link) ==
  \E lower \in {toLowerCase(link)} :
    \E i \in DOMAIN AuctionPattern : Includes(lower, AuctionPattern[i])

RECURSIVE MatchKeywords(_, _)
\* for (const kw of RISK_KEYWORDS) if (text.toLowerCase().includes(kw)) risks.add(kw)
\* over the first n keywords, lower being text.toLowerCase()
MatchKeywords(lower, n) ==
  IF n = 0 THEN <<>>
  ELSE LET Add(before) ==
             IF Includes(lower, RISK_KEYWORDS[n])
             THEN SetAdd(before, RISK_KEYWORDS[n]) ELSE before
       IN  With({MatchKeywords(lower, n - 1)}, Add)

AuctionThreshold == 2

\* A slip: the text is searched as it is, not lower-cased.
KeywordRisksAsIs(text) ==
  LET Match(lower) == MatchKeywords(lower, Len(RISK_KEYWORDS))
  IN  With({text}, Match)

\* The keywords found in text, in the order of RISK_KEYWORDS.
KeywordRisks(text) ==
  LET Match(lower) == MatchKeywords(lower, Len(RISK_KEYWORDS))
  IN  With({toLowerCase(text)}, Match)

\* JSON.stringify(aggregates.webHits || []) + ' ' + JSON.stringify(aggregates.nhtsa || {})
RiskText(aggregates) ==
  JsonArray(GetOr(aggregates, "webHits", <<>>), HitKeys) \o <<" ">>
    \o JsonNhtsa(GetOr(aggregates, "nhtsa", EmptyObj))

\* (aggregates.webHits || []).filter(h => pattern.test(h.link || '')).length
AuctionCount(aggregates) ==
  LET webHits == GetOr(aggregates, "webHits", <<>>)
  IN  Cardinality({i \in DOMAIN webHits : AuctionTest(GetOr(webHits[i], "link", <<>>))})

\* A slip: the patch without ...aggregates.
RisksPatchNoSpread(aggregates, matched) ==
  LET risks == IF AuctionCount(aggregates) >= AuctionThreshold
               THEN SetAdd(matched, MULTIPLE_AUCTIONS) ELSE matched
  IN  "aggregates" :> ("risks" :> risks)

\* nodeRisks once the keyword matches are computed
RisksPatch(aggregates, matched) ==
  LET risks == IF AuctionCount(aggregates) >= AuctionThreshold
               THEN SetAdd(matched, MULTIPLE_AUCTIONS) ELSE matched
  IN  "aggregates" :> Spread(aggregates, "risks" :> risks)

nodeRisks(s) ==
  LET Patch(matched) == RisksPatch(s["aggregates"], matched)
  IN  With({KeywordRisks(RiskText(s["aggregates"]))}, Patch)

\* A slip: a first row counts as decoded, with a Model or without.
DecodedOkAnyRow(aggregates) ==
  LET nhtsa == GetOr(aggregates, "nhtsa", EmptyObj)
      results == GetOr(nhtsa, "Results", <<>>)
  IN  Len(results) >= 1

\* !!(aggregates.nhtsa?.Results?.[0]?.Model)
DecodedOk(aggregates) ==
  LET nhtsa == GetOr(aggregates, "nhtsa", EmptyObj)
      results == GetOr(nhtsa, "Results", <<>>)
  IN  /\ Len(results) >= 1
      /\ GetStrOr(results[1], "Model", <<>>) # <<>>

MaxSources == 8

\* A slip: the markers node also cuts webHits down to the sources shown.
nodeMarkersCutsHits(s) ==
  LET aggregates == s["aggregates"]
      webHits == GetOr(aggregates, "webHits", <<>>)
  IN  "aggregates" :>
        Spread(aggregates,
               ("markers" :> EmptyObj) @@
               ("webHits" :> SubSeq(webHits, 1, Min(MaxSources, Len(webHits)))))

nodeMarkers(s) ==
  LET norm == s["norm"]
      aggregates == s["aggregates"]
      webHits == GetOr(aggregates, "webHits", <<>>)
      risks == GetOr(aggregates, "risks", <<>>)
      hasWeb == Len(webHits) > 0
      risky == Len(risks) > 0
      always ==
        ("input_type" :> [ok |-> norm.kind # "unknown", note |-> norm.kind]) @@
        ("web_presence" :>
           [ok |-> hasWeb,
            note |-> IF hasWeb THEN NumString(Len(webHits)) \o HITS_SUFFIX ELSE NO_HITS]) @@
        ("risk_flags" :>
           [ok |-> ~risky, note |-> IF risky THEN Join(risks, JOIN_SEP) ELSE NONE_NOTE])
      forVin ==
        ("vin_checksum" :>
           [ok |-> GetOr(aggregates, "vinValid", FALSE),
            note |-> GetOr(aggregates, "vin", undefined)]) @@
        ("vin_decoded" :>
           [ok |-> DecodedOk(aggregates),
            note |-> IF DecodedOk(aggregates) THEN NHTSA_DECODED ELSE NO_DECODE])
      markers == IF norm.kind = "vin" THEN forVin @@ always ELSE always
  IN  "aggregates" :> Spread(aggregates, "markers" :> markers)

\* A slip: every hit is sent, the slice forgotten.
ReportPayloadAllHits(s) ==
  LET aggregates == s["aggregates"]
      copied == [k \in {"vin", "plate", "facts", "markers"} \cap DOMAIN aggregates |->
                   aggregates[k]]
  IN  Spread(copied, "hits" :> GetOr(aggregates, "webHits", <<>>))

\* The object nodeReport serializes into the user message.
ReportPayload(s) ==
  LET aggregates == s["aggregates"]
      webHits == GetOr(aggregates, "webHits", <<>>)
      copied == [k \in {"vin", "plate", "facts", "markers"} \cap DOMAIN aggregates |->
                   aggregates[k]]
  IN  Spread(copied, "hits" :> SubSeq(webHits, 1, Min(MaxSources, Len(webHits))))

\* A slip: an empty completion is not stored.
nodeReportIfText(s, res) ==
  IF res.content = <<>> THEN EmptyObj
  ELSE "aggregates" :> Spread(s["aggregates"], "report" :> res.content)

\* nodeReport after model.invoke answered res
nodeReport(s, res) ==
  "aggregates" :> Spread(s["aggregates"], "report" :> res.content)

\* ---------------------------------------------------------------- inputs

VIN_EXAMPLE == <<"W","V","W","Z","Z","Z","1","J","Z","X","W","0","0","0","0","0","1">>
VIN_HONDA == <<"1","H","G","C","M","8","2","6","3","3","A","0","0","4","3","5","2">>
VIN_X == <<"1","M","8","G","D","M","9","A","X","K","P","0","4","2","7","8","8">>
VIN_ONES == <<"1","1","1","1","1","1","1","1","1","1","1","1","1","1","1","1","1">>
VIN_HONDA_TYPED == <<"1","h","g","c","m","8","2","6","3","3","a","-","0","0","4","3","5","2">>
VIN_HONDA_BAD == <<"1","H","G","C","M","8","2","6","3","3","A","0","0","4","3","5","3">>
PLATE_EXAMPLE == <<"A","B","1","2","3","4","C","D">>
PLATE_TYPED == <<" ","a","b","-","1","2","3","4"," ","c","d">>
PLATE_MIN == <<"A","B","1","2","3">>
PLATE_MAX == <<"A","B","1","2","3","4","5","C","D","E">>
TOO_SHORT == <<"A","B","1","2">>
ELEVEN == <<"A","B","1","2","3","4","5","C","D","E","F">>
BLANKS == <<" "," ">>
\* a plate typed in Cyrillic capitals: every letter is stripped
PLATE_CYRILLIC == <<"U+0410","U+0410","1","2","3","4","U+0412","U+0412">>

\* What the CLI is run with.
PipelineInputs ==
  { VIN_EXAMPLE, VIN_HONDA, VIN_X, VIN_ONES, VIN_HONDA_TYPED, VIN_HONDA_BAD,
    PLATE_EXAMPLE, PLATE_TYPED, PLATE_MIN, PLATE_MAX, TOO_SHORT, ELEVEN,
    BLANKS, PLATE_CYRILLIC, <<>> }

MaxDrop == 1
MaxExtra == 1

ProbeBases ==
  { VIN_EXAMPLE, VIN_HONDA, VIN_X, VIN_ONES, PLATE_EXAMPLE, PLATE_MIN, PLATE_MAX }

EditChars ==
  UpperChars \cup DigitChars \cup {"a", "h", "i", "x"} \cup {"-", " ", "\t"}
    \cup {"U+0410", "U+0430", SharpS}

PadChars == {"1", "A", "-"}

\* b with one character replaced
Substituted ==
  UNION {{[b EXCEPT ![i] = c] : i \in 1..Len(b), c \in EditChars} : b \in ProbeBases}

\* b without its last d characters, 1 <= d <= MaxDrop
Shortened ==
  UNION {{SubSeq(b, 1, Len(b) - d) : d \in 1..MaxDrop} : b \in ProbeBases}

\* b followed by 1..MaxExtra characters
Extended ==
  UNION {UNION {{b \o pad : pad \in [1..n -> PadChars]} : n \in 1..MaxExtra} :
           b \in ProbeBases}

\* The arguments the helpers are called with directly.
ProbeInputs ==
  PipelineInputs \cup {undefined} \cup Substituted \cup Shortened \cup Extended

\* ---------------------------------------------------------------- the graph

START == "__start__"
END == "__end__"

Nodes == {"normalize", "vin_info", "web_search", "risks", "markers", "report"}

\* A slip: the risks node wired before the search node.
EdgesRisksFirst ==
  { <<START, "normalize">>, <<"normalize", "vin_info">>, <<"vin_info", "risks">>,
    <<"risks", "web_search">>, <<"web_search", "markers">>, <<"markers", "report">>,
    <<"report", END>> }

\* addEdge(from, to)
Edges ==
  { <<START, "normalize">>, <<"normalize", "vin_info">>, <<"vin_info", "web_search">>,
    <<"web_search", "risks">>, <<"risks", "markers">>, <<"markers", "report">>,
    <<"report", END>> }

Successor(n) == CHOOSE m \in Nodes \cup {END} : <<n, m>> \in Edges

\* A patch is merged channel by channel; each channel keeps the last value.
Merge(st, patch) == patch @@ st

Aggregates(st) == GetOr(st, "aggregates", EmptyObj)

\* The aggregate fields whose value the step from old to new set.
Changed(old, new) ==
  {f \in DOMAIN new : f \notin DOMAIN old \/ new[f] # old[f]}

ProbeIdle ==
  [fn |-> "idle", arg |-> <<>>, kind |-> "", value |-> <<>>, ok |-> FALSE,
   kind2 |-> "", value2 |-> <<>>]

\* A run of the CLI: app.invoke({ input: { q } }) has been called.
RunInit ==
  /\ q \in PipelineInputs
  /\ hasKey \in BOOLEAN
  /\ state = ("input" :> [q |-> q])
  /\ pc = Successor(START)
  /\ inflight = "none"
  /\ error = NoError
  /\ caller = "pending"
  /\ out = EmptyObj
  /\ caught = NoError
  /\ started = <<>>
  /\ finished = <<>>
  /\ calls = <<>>
  /\ lastSet = EmptyObj
  /\ answered = undefined
  /\ probe = ProbeIdle

\* A direct call of one helper, no run.
ProbeInit ==
  /\ q = <<>>
  /\ hasKey = FALSE
  /\ state = EmptyObj
  /\ pc = "none"
  /\ inflight = "none"
  /\ error = NoError
  /\ caller = "none"
  /\ out = EmptyObj
  /\ caught = NoError
  /\ started = <<>>
  /\ finished = <<>>
  /\ calls = <<>>
  /\ lastSet = EmptyObj
  /\ answered = undefined
  /\ \E a \in ProbeInputs :
       probe = [fn |-> "none", arg |-> a, kind |-> "", value |-> <<>>, ok |-> FALSE,
                kind2 |-> "", value2 |-> <<>>]

Init == RunInit \/ ProbeInit

\* The executor may run node n now.
Ready(n) == pc = n /\ inflight = "none" /\ caller = "pending"

Begin(n) == started' = Append(started, n)

\* The node's patch is merged and the executor moves along the node's edge.
Commit(n, patch) ==
  \E merged \in {Merge(state, patch)} :
    /\ state' = merged
    /\ pc' = Successor(n)
    /\ inflight' = "none"
    /\ finished' = Append(finished, n)
    /\ lastSet' =
         [f \in Changed(Aggregates(state), Aggregates(merged)) |-> Aggregates(merged)[f]] @@ lastSet

\* A slip: the failure is recorded and the executor goes on to the next node.
AbortGoesOn(e) ==
  /\ pc' = Successor(pc)
  /\ inflight' = "none"
  /\ error' = e
  /\ UNCHANGED <<state, finished, lastSet>>

\* The node threw e: the executor stops and app.invoke's promise rejects.
Abort(e) ==
  /\ pc' = "aborted"
  /\ inflight' = "none"
  /\ error' = e
  /\ UNCHANGED <<state, finished, lastSet>>

Call(to, arg) ==
  /\ inflight' = to
  /\ calls' = Append(calls, [to |-> to, arg |-> arg])
  /\ UNCHANGED <<state, pc, finished, lastSet, error>>

Fixed == <<q, hasKey, caller, out, caught, probe, answered>>

Normalize ==
  /\ Ready("normalize")
  /\ Begin("normalize")
  /\ Commit("normalize", nodeNormalize(state))
  /\ UNCHANGED <<error, calls>>
  /\ UNCHANGED Fixed

VinInfoSkip ==
  /\ Ready("vin_info")
  /\ VinInfoSkips(state)
  /\ Begin("vin_info")
  /\ Commit("vin_info", EmptyObj)
  /\ UNCHANGED <<error, calls>>
  /\ UNCHANGED Fixed

VinInfoCall ==
  /\ Ready("vin_info")
  /\ ~VinInfoSkips(state)
  /\ Begin("vin_info")
  /\ Call("nhtsaDecodeVin", GetOr(state["aggregates"], "vin", undefined))
  /\ UNCHANGED Fixed

VinInfoReturn ==
  /\ inflight = "nhtsaDecodeVin"
  /\ \E data \in DecodeResponses : Commit("vin_info", nodeVinInfo(state, data))
  /\ UNCHANGED <<error, calls, started>>
  /\ UNCHANGED Fixed

VinInfoRaise ==
  /\ inflight = "nhtsaDecodeVin"
  /\ \E e \in DecodeErrors : Abort(e)
  /\ UNCHANGED <<calls, started>>
  /\ UNCHANGED Fixed

\* A slip: the credential is looked at only after the request was sent.
WebSearchNoKeyAfterCall ==
  /\ Ready("web_search")
  /\ ~hasKey
  /\ Begin("web_search")
  /\ calls' = Append(calls, [to |-> "tv.search", arg |-> SearchQuery(state)])
  /\ Abort(MissingKeyError)
  /\ UNCHANGED Fixed

WebSearchNoKey ==
  /\ Ready("web_search")
  /\ ~hasKey
  /\ Begin("web_search")
  /\ Abort(MissingKeyError)
  /\ UNCHANGED calls
  /\ UNCHANGED Fixed

WebSearchCall ==
  /\ Ready("web_search")
  /\ hasKey
  /\ Begin("web_search")
  /\ Call("tv.search", SearchQuery(state))
  /\ UNCHANGED Fixed

WebSearchReturn ==
  /\ inflight = "tv.search"
  /\ \E res \in SearchResponses :
       Commit("web_search", nodeWebSearch(state, webSearch(res)))
  /\ UNCHANGED <<error, calls, started>>
  /\ UNCHANGED Fixed

WebSearchRaise ==
  /\ inflight = "tv.search"
  /\ \E e \in SearchErrors : Abort(e)
  /\ UNCHANGED <<calls, started>>
  /\ UNCHANGED Fixed

Risks ==
  /\ Ready("risks")
  /\ Begin("risks")
  /\ Commit("risks", nodeRisks(state))
  /\ UNCHANGED <<error, calls>>
  /\ UNCHANGED Fixed

Markers ==
  /\ Ready("markers")
  /\ Begin("markers")
  /\ Commit("markers", nodeMarkers(state))
  /\ UNCHANGED <<error, calls>>
  /\ UNCHANGED Fixed

ReportCall ==
  /\ Ready("report")
  /\ Begin("report")
  /\ Call("model.invoke", ReportPayload(state))
  /\ UNCHANGED Fixed

ReportReturn ==
  /\ inflight = "model.invoke"
  /\ \E res \in ModelResponses :
       /\ Commit("report", nodeReport(state, res))
       /\ answered' = res.content
  /\ UNCHANGED <<error, calls, started>>
  /\ UNCHANGED <<q, hasKey, caller, out, caught, probe>>

ReportRaise ==
  /\ inflight = "model.invoke"
  /\ \E e \in ModelErrors : Abort(e)
  /\ UNCHANGED <<calls, started>>
  /\ UNCHANGED Fixed

Pipeline == <<state, pc, inflight, error, started, finished, calls, lastSet, answered>>

\* .then(out => ...): the graph reached END and the caller gets the final state.
Then ==
  /\ pc = END
  /\ caller = "pending"
  /\ caller' = "then"
  /\ out' = state
  /\ UNCHANGED <<q, hasKey, caught, probe>>
  /\ UNCHANGED Pipeline

\* A slip: the caller gets a new error wrapped around what the node threw.
CatchWrapped ==
  /\ pc = "aborted"
  /\ caller = "pending"
  /\ caller' = "catch"
  /\ caught' = [error EXCEPT !.name = "Error", !.message = "run failed"]
  /\ UNCHANGED <<q, hasKey, out, probe>>
  /\ UNCHANGED Pipeline

\* .catch(e => ...): the caller gets what the node threw, and the process exits.
Catch ==
  /\ pc = "aborted"
  /\ caller = "pending"
  /\ caller' = "catch"
  /\ caught' = error
  /\ UNCHANGED <<q, hasKey, out, probe>>
  /\ UNCHANGED Pipeline

ProbeNormalizeQuery ==
  /\ probe.fn = "none"
  /\ probe' = LET r == normalizeQuery(probe.arg)
              IN  [probe EXCEPT !.fn = "normalizeQuery", !.kind = r.kind,
                                !.value = r.value]
  /\ UNCHANGED <<q, hasKey, caller, out, caught>>
  /\ UNCHANGED Pipeline

\* normalizeQuery called on the value its first call returned
ProbeNormalizeAgain ==
  /\ probe.fn = "normalizeQuery"
  /\ probe' = LET r == normalizeQuery(probe.value)
              IN  [probe EXCEPT !.fn = "normalizeQuery twice", !.kind2 = r.kind,
                                !.value2 = r.value]
  /\ UNCHANGED <<q, hasKey, caller, out, caught>>
  /\ UNCHANGED Pipeline

ProbeVinChecksumValid ==
  /\ probe.fn = "none"
  /\ probe' = [probe EXCEPT !.fn = "vinChecksumValid",
                            !.ok = vinChecksumValid(probe.arg)]
  /\ UNCHANGED <<q, hasKey, caller, out, caught>>
  /\ UNCHANGED Pipeline

ProbeIsLikelyVIN ==
  /\ probe.fn = "none"
  /\ probe' = [probe EXCEPT !.fn = "isLikelyVIN", !.ok = isLikelyVIN(probe.arg)]
  /\ UNCHANGED <<q, hasKey, caller, out, caught>>
  /\ UNCHANGED Pipeline

\* The steps of a run of the CLI.
RunNext ==
  \/ Normalize
  \/ VinInfoSkip
  \/ VinInfoCall
  \/ VinInfoReturn
  \/ VinInfoRaise
  \/ WebSearchNoKey
  \/ WebSearchCall
  \/ WebSearchReturn
  \/ WebSearchRaise
  \/ Risks
  \/ Markers
  \/ ReportCall
  \/ ReportReturn
  \/ ReportRaise
  \/ Then
  \/ Catch

\* The direct calls of the helpers.
ProbeNext ==
  \/ ProbeNormalizeQuery
  \/ ProbeNormalizeAgain
  \/ ProbeVinChecksumValid
  \/ ProbeIsLikelyVIN

Next == RunNext \/ ProbeNext

\* Runs of the CLI and direct calls of the helpers.
Spec == Init /\ [][Next]_vars

\* Runs of the CLI alone.  Every continuation the event loop holds is
\* eventually run, and every collaborator call settles: it answers or it
\* fails (each client enforces its own timeout).
LiveSpec ==
  /\ RunInit
  /\ [][RunNext]_vars
  /\ WF_vars(Normalize)
  /\ WF_vars(VinInfoSkip)
  /\ WF_vars(VinInfoCall)
  /\ WF_vars(VinInfoReturn)
  /\ WF_vars(VinInfoRaise)
  /\ WF_vars(WebSearchNoKey)
  /\ WF_vars(WebSearchCall)
  /\ WF_vars(WebSearchReturn)
  /\ WF_vars(WebSearchRaise)
  /\ WF_vars(Risks)
  /\ WF_vars(Markers)
  /\ WF_vars(ReportCall)
  /\ WF_vars(ReportReturn)
  /\ WF_vars(ReportRaise)
  /\ WF_vars(Then)
  /\ WF_vars(Catch)

\* ---------------------------------------------------------------- readings of a state

Agg == Aggregates(state)

IsRun == pc # "none"

IsPrefix(s, t) == Len(s) <= Len(t) /\ \A i \in 1..Len(s) : s[i] = t[i]

\* The order of the stages, as the specification gives it.
StageOrder == <<"normalize", "vin_info", "web_search", "risks", "markers", "report">>

Raised == error # NoError

\* The stage that had begun and not finished.
OpenStage == IF Len(started) > Len(finished) THEN started[Len(started)] ELSE "none"

CallsTo(to) == {i \in DOMAIN calls : calls[i].to = to}

\* A collaborator call itself failed (the missing credential is no call).
CollaboratorRaised == error \in DecodeErrors \cup SearchErrors \cup ModelErrors

DecodeRaised == error \in DecodeErrors

\* Some field of the error object is the name of the stage.
NamesStage(e, stage) == \E f \in DOMAIN e : e[f] = stage

\* ---------------------------------------------------------------- C1

\* C1: in every run the stages execute in the order normalize, vin_info,
\* web_search, risks, markers, report, each at most once; a stage starts only
\* when every stage before it has finished and been merged; at most one stage
\* is open at any time.
C1_StagesInOrder ==
  /\ IsPrefix(started, StageOrder)
  /\ IsPrefix(finished, StageOrder)
  /\ Len(started) - Len(finished) \in {0, 1}
  /\ (inflight # "none" => Len(started) = Len(finished) + 1)
  /\ (pc \in Nodes => pc = StageOrder[Len(finished) + 1])
  /\ (pc = END => finished = StageOrder)

C1_Witness == caller = "then" /\ finished = StageOrder /\ started = StageOrder

\* ---------------------------------------------------------------- C2

\* C2: once a stage has raised, the run is aborted: no stage starts or
\* finishes, no collaborator is called, the state (so the field report) is
\* not written again, report is absent, and the caller's catch handler, never
\* its then handler, receives the error that was raised.
C2_FailFast ==
  /\ [](Raised => /\ pc = "aborted"
                  /\ inflight = "none"
                  /\ "report" \notin DOMAIN Agg
                  /\ caller # "then"
                  /\ out = EmptyObj)
  /\ [][Raised => /\ started' = started
                  /\ finished' = finished
                  /\ calls' = calls
                  /\ state' = state
                  /\ error' = error]_vars
  /\ [](caller = "catch" => Raised /\ caught = error)
  /\ (Raised ~> caller = "catch")

C2_Witness ==
  /\ caller = "catch"
  /\ error \in SearchErrors
  /\ "facts" \in DOMAIN Agg
  /\ started = <<"normalize", "vin_info", "web_search">>

\* ---------------------------------------------------------------- C3

AggregateFields ==
  {"vin", "plate", "vinValid", "nhtsa", "facts", "webHits", "risks", "markers", "report"}

\* C4: a field of the aggregate that some stage wrote stays present in every
\* later state, and in every state (the final one too) each field holds the
\* value of the last patch that set it.
C4_Monotonic ==
  /\ [][\A f \in DOMAIN Agg : f \in DOMAIN Aggregates(state')]_vars
  /\ [](/\ DOMAIN lastSet = DOMAIN Agg
        /\ DOMAIN Agg \subseteq AggregateFields
        /\ \A f \in DOMAIN lastSet : Agg[f] = lastSet[f])
  /\ [](caller = "then" => Aggregates(out) = lastSet)

C4_Witness ==
  /\ caller = "then"
  /\ DOMAIN Aggregates(out) = AggregateFields \ {"plate"}
  /\ Len(Aggregates(out)["risks"]) > 0

\* ---------------------------------------------------------------- C5

\* The fields each stage is responsible for.
Owned ==
  [normalize |-> {"vin", "plate", "vinValid"},
   vin_info |-> {"nhtsa", "facts"},
   web_search |-> {"webHits"},
   risks |-> {"risks"},
   markers |-> {"markers"},
   report |-> {"report"}]

\* The aggregate fields that differ between two aggregates.
Differ(a, b) ==
  {f \in DOMAIN a \cup DOMAIN b :
     f \notin DOMAIN a \/ f \notin DOMAIN b \/ a[f] # b[f]}

\* C5: a step changes aggregate fields only if it is the step of a stage, and
\* then only fields that stage owns; norm is written by normalize alone and
\* never changes afterwards; input never changes.
C5_Frame ==
  [][/\ Differ(Agg, Aggregates(state')) # {} =>
          pc \in Nodes /\ Differ(Agg, Aggregates(state')) \subseteq Owned[pc]
     /\ DOMAIN state \subseteq DOMAIN state'
     /\ "input" \in DOMAIN state => state'["input"] = state["input"]
     /\ "norm" \in DOMAIN state => state'["norm"] = state["norm"]
     /\ ("norm" \notin DOMAIN state /\ "norm" \in DOMAIN state') => pc = "normalize"
    ]_vars

C5_Witness ==
  /\ "markers" \in DOMAIN Agg
  /\ "facts" \in DOMAIN Agg
  /\ Len(Agg["risks"]) > 0
  /\ Len(Agg["webHits"]) > 0

\* ---------------------------------------------------------------- ISO 3779, stated apart from the code

\* The transliteration value of a character of the VIN alphabet: a digit is
\* itself; A..H are 1..8, J..N are 1..5, P is 7, R is 9, S..Z are 2..9.
RefTranslit(c) ==
  IF c \in DigitChars THEN IndexOf(Digits, c) - 1
  ELSE LET pos == IndexOf(UpperSeq, c)
       IN  CASE pos <= 8 -> pos
             [] pos >= 10 /\ pos <= 14 -> pos - 9
             [] c = "P" -> 7
             [] c = "R" -> 9
             [] pos >= 19 -> pos - 17

\* The weight of the position i, counted from 0: 8,7,6,5,4,3,2,10,0,9,8,7,6,5,4,3,2
RefWeight(i) ==
  IF i < 7 THEN 8 - i ELSE IF i = 7 THEN 10 ELSE IF i = 8 THEN 0 ELSE 18 - i

RefIsVinText(v) ==
  /\ Len(v) = 17
  /\ \A i \in DOMAIN v : v[i] \in (UpperChars \cup DigitChars) \ {"I", "O", "Q"}

RECURSIVE RefSum(_, _)
RefSum(v, n) ==
  IF n = 0 THEN 0 ELSE RefSum(v, n - 1) + RefTranslit(v[n]) * RefWeight(n - 1)

RefCheckChar(v) ==
  LET r == RefSum(v, 17) % 11
  IN  IF r = 10 THEN "X" ELSE Digits[r + 1]

RefValidVin(v) == RefIsVinText(v) /\ v[9] = RefCheckChar(v)

RefAlnumUpper(v) == \A i \in DOMAIN v : v[i] \in UpperChars \cup DigitChars

RefPlateShape(v) == Len(v) >= 5 /\ Len(v) <= 10 /\ RefAlnumUpper(v)

HasNorm == IsRun /\ "norm" \in DOMAIN state

\* ---------------------------------------------------------------- C6

\* C6 as stated: a run in which no collaborator call raised ends with all six
\* stages executed and with markers and report set.
C6_Original ==
  (IsRun /\ ~ CollaboratorRaised /\ caller # "pending") =>
    /\ caller = "then"
    /\ finished = StageOrder
    /\ {"markers", "report"} \subseteq DOMAIN Aggregates(out)

\* C6 amended: every run terminates; a run in which no collaborator call
\* raised and the search credential is set is never aborted, and it ends with
\* all six stages executed and with markers and report set, whatever the
\* classification, the decode record, the hits and the risks are.
C6_DataOutcomes ==
  /\ []((~ CollaboratorRaised /\ hasKey) => pc # "aborted" /\ caller # "catch")
  /\ []((~ CollaboratorRaised /\ hasKey /\ caller # "pending") =>
          /\ caller = "then"
          /\ finished = StageOrder
          /\ {"markers", "report"} \subseteq DOMAIN Aggregates(out))
  /\ <>(caller # "pending")

C6_Witness ==
  /\ caller = "then"
  /\ "nhtsa" \in DOMAIN Agg
  /\ "Results" \notin DOMAIN Agg["nhtsa"]
  /\ Agg["webHits"] = <<>>
  /\ {"markers", "report"} \subseteq DOMAIN Aggregates(out)

\* ---------------------------------------------------------------- C7

\* C7 as stated: the input "WVWZZZ1JZXW000001" is classified as a VIN, its
\* check character agreeing with the weighted sum, the decode collaborator is
\* called with it, and the search collaborator is called with the same VIN.
C7_Original ==
  (IsRun /\ q = VIN_EXAMPLE) =>
    /\ HasNorm => /\ state["norm"].kind = "vin"
                  /\ state["norm"].value[9] = RefCheckChar(state["norm"].value)
    /\ \A i \in CallsTo("tv.search") :
         /\ calls[i].arg = VIN_EXAMPLE
         /\ \E j \in CallsTo("nhtsaDecodeVin") : j < i /\ calls[j].arg = VIN_EXAMPLE

\* C7 amended: the input "WVWZZZ1JZXW000001" is classified as unknown, because
\* its character at index 8 is "Z" while the weighted sum gives "0"; the
\* decode collaborator is never called, no VIN, plate or decode field is set,
\* and the search collaborator is called with the input text itself.
C7_Example ==
  (IsRun /\ q = VIN_EXAMPLE) =>
    /\ RefCheckChar(q) = "0"
    /\ q[9] = "Z"
    /\ HasNorm => state["norm"] = [kind |-> "unknown", value |-> q]
    /\ CallsTo("nhtsaDecodeVin") = {}
    /\ {"vin", "vinValid", "plate", "nhtsa", "facts"} \cap DOMAIN Agg = {}
    /\ \A i \in CallsTo("tv.search") : calls[i].arg = q
    /\ "webHits" \in DOMAIN Agg => CallsTo("tv.search") # {}

C7_Witness ==
  /\ q = VIN_EXAMPLE
  /\ caller = "then"
  /\ CallsTo("tv.search") # {}

\* ---------------------------------------------------------------- C8

\* C8: what normalizeQuery returns has only characters of [A-Z0-9]; kind vin
\* implies a value of 17 characters of the VIN alphabet that passes the
\* checksum; kind plate implies a value of 5 to 10 characters that is no valid
\* VIN; every other input, the empty and the absent one too (value ""), is
\* unknown.  In a run, vin is set exactly when the kind is vin, plate exactly
\* when the kind is plate, each to the normalized value, and never both.
C8_Classification ==
  /\ probe.fn = "normalizeQuery" =>
       /\ RefAlnumUpper(probe.value)
       /\ probe.kind \in {"vin", "plate", "unknown"}
       /\ probe.kind = "vin" => RefValidVin(probe.value)
       /\ probe.kind = "plate" => RefPlateShape(probe.value) /\ ~ RefValidVin(probe.value)
       /\ (~ RefValidVin(probe.value) /\ ~ RefPlateShape(probe.value)) =>
            probe.kind = "unknown"
       /\ probe.arg \in {<<>>, undefined} => probe.kind = "unknown" /\ probe.value = <<>>
  /\ IsRun =>
       /\ ~ ({"vin", "plate"} \subseteq DOMAIN Agg)
       /\ ~ HasNorm => {"vin", "plate"} \cap DOMAIN Agg = {}
       /\ HasNorm =>
            /\ "vin" \in DOMAIN Agg <=> state["norm"].kind = "vin"
            /\ "plate" \in DOMAIN Agg <=> state["norm"].kind = "plate"
            /\ \A f \in {"vin", "plate"} \cap DOMAIN Agg : Agg[f] = state["norm"].value

C8_Witness ==
  /\ probe.fn = "normalizeQuery"
  /\ probe.kind = "plate"
  /\ probe.arg # probe.value

\* ---------------------------------------------------------------- C9

ValidBases == {VIN_HONDA, VIN_X, VIN_ONES}

\* C9: vinChecksumValid(v) holds exactly when v is 17 characters of the VIN
\* alphabet and v[8] is the expected check character of ISO 3779.  So a text
\* of 16 or 18 characters, or one with I, O or Q, is rejected,
\* "1HGCM82633A004352" is accepted, and a valid VIN with another character at
\* index 8 is rejected.
C9_Checksum ==
  probe.fn = "vinChecksumValid" =>
    /\ probe.ok <=> RefValidVin(probe.arg)
    /\ Len(probe.arg) \in {16, 18} => ~ probe.ok
    /\ (\E i \in DOMAIN probe.arg : probe.arg[i] \in {"I", "O", "Q"}) => ~ probe.ok
    /\ probe.arg = VIN_HONDA => probe.ok
    /\ \A b \in ValidBases :
         ( /\ Len(probe.arg) = 17
           /\ probe.arg[9] # b[9]
           /\ \A i \in (1..17) \ {9} : probe.arg[i] = b[i] ) => ~ probe.ok

C9_Witness ==
  /\ probe.fn = "vinChecksumValid"
  /\ probe.arg = VIN_HONDA
  /\ probe.ok

\* ---------------------------------------------------------------- C10

\* C10: in a run whose input is classified as plate the decode collaborator
\* is never called, the vin_info stage changes nothing in the state (facts and
\* the decode record stay absent), and the search collaborator is called with
\* the normalized plate.
C10_PlateSkipsDecode ==
  /\ []((HasNorm /\ state["norm"].kind = "plate") =>
          /\ CallsTo("nhtsaDecodeVin") = {}
          /\ {"facts", "nhtsa"} \cap DOMAIN Agg = {}
          /\ \A i \in CallsTo("tv.search") :
               calls[i].arg = state["norm"].value /\ calls[i].arg = Agg["plate"]
          /\ "webHits" \in DOMAIN Agg => CallsTo("tv.search") # {})
  /\ [][(HasNorm /\ state["norm"].kind = "plate" /\ pc = "vin_info") =>
          /\ state' = state
          /\ calls' = calls
          /\ pc' = "web_search"
          /\ finished' = Append(finished, "vin_info")]_vars

C10_Witness ==
  /\ q = PLATE_TYPED
  /\ caller = "then"
  /\ calls[1] = [to |-> "tv.search", arg |-> PLATE_EXAMPLE]

\* ---------------------------------------------------------------- C11

\* C11: for the empty input the run classifies the input as unknown, the
\* decode collaborator is not called, the search collaborator is called, if
\* at all, with the input text, the risk set the risks stage leaves is empty,
\* and the marker input_type has ok = false.
C11_EmptyInput ==
  (IsRun /\ q = <<>>) =>
    /\ HasNorm => state["norm"].kind = "unknown"
    /\ CallsTo("nhtsaDecodeVin") = {}
    /\ \A i \in CallsTo("tv.search") : calls[i].arg = q
    /\ "risks" \in DOMAIN Agg => Agg["risks"] = <<>>
    /\ "markers" \in DOMAIN Agg => Agg["markers"]["input_type"].ok = FALSE

\* ---------------------------------------------------------------- C12

\* C12: in a run without the search credential the search collaborator is
\* never called; once the web_search stage has begun the run is aborted with
\* the error of the credential check, in that stage; no later stage begins,
\* webHits, risks, markers and report are never set, and the caller's catch
\* handler receives that error.
C12_MissingCredential ==
  (IsRun /\ ~ hasKey) =>
    /\ CallsTo("tv.search") = {}
    /\ {"webHits", "risks", "markers", "report"} \cap DOMAIN Agg = {}
    /\ Range(started) \cap {"risks", "markers", "report"} = {}
    /\ caller # "then"
    /\ "web_search" \in Range(started) =>
         /\ error = MissingKeyError
         /\ pc = "aborted"
         /\ OpenStage = "web_search"
         /\ caller = "catch" => caught = MissingKeyError

C12_Witness ==
  /\ ~ hasKey
  /\ caller = "catch"
  /\ caught = MissingKeyError
  /\ "facts" \in DOMAIN Agg

\* ---------------------------------------------------------------- C13

\* The least element of a non-empty set of numbers.
Least(S) == CHOOSE i \in S : \A j \in S : i <= j

\* The host of a link: what stands between "://" and the next "/", "?" or
\* "#"; a text without "://" has no host.
RefHost(link) ==
  LET starts == {i \in 1..(Len(link) - 2) :
                   link[i] = ":" /\ link[i + 1] = "/" /\ link[i + 2] = "/"}
  IN  IF starts = {} THEN <<>>
      ELSE LET from == Least(starts) + 3
               ends == {i \in from..Len(link) : link[i] \in {"/", "?", "#"}}
               to == IF ends = {} THEN Len(link) ELSE Least(ends) - 1
           IN  SubSeq(link, from, to)

\* The hits whose link has a host that matches the auction pattern.
AuctionHosts(webHits) ==
  {i \in DOMAIN webHits : AuctionTest(RefHost(GetOr(webHits[i], "link", <<>>)))}

\* C13: after the risks stage the risk set contains multiple_auctions
\* exactly when at least two web hits have a link whose host matches the
\* auction pattern; an auction term in the path or the query of a link does
\* not count.
C13_AuctionHosts ==
  (IsRun /\ "risks" \in DOMAIN Agg) =>
    ( MULTIPLE_AUCTIONS \in Range(Agg["risks"])
        <=> Cardinality(AuctionHosts(GetOr(Agg, "webHits", <<>>))) >= 2 )

\* ---------------------------------------------------------------- C14

RECURSIVE RefCommaJoined(_)
\* The labels, each followed by ", " but for the last.
RefCommaJoined(labels) ==
  IF labels = <<>> THEN <<>>
  ELSE IF Len(labels) = 1 THEN labels[1]
  ELSE labels[1] \o <<",", " ">> \o RefCommaJoined(Tail(labels))

\* C14: once the markers stage has run, markers has input_type, web_presence
\* and risk_flags; input_type.ok holds iff the kind is not unknown, its note
\* is the kind; web_presence.ok holds iff there is at least one web hit, its
\* note is "no hits" when there is none; risk_flags.ok holds iff the risk
\* set is empty, its note is "none" then and otherwise the labels joined by
\* ", ".
C14_Markers ==
  (IsRun /\ "markers" \in DOMAIN Agg) =>
    LET markers == Agg["markers"]
        kind == state["norm"].kind
        hits == GetOr(Agg, "webHits", <<>>)
        risks == GetOr(Agg, "risks", <<>>)
    IN  /\ {"input_type", "web_presence", "risk_flags"} \subseteq DOMAIN markers
        /\ markers["input_type"].ok <=> kind # "unknown"
        /\ markers["input_type"].note = kind
        /\ markers["web_presence"].ok <=> Len(hits) >= 1
        /\ Len(hits) = 0 =>
             markers["web_presence"].note = <<"n","o"," ","h","i","t","s">>
        /\ markers["risk_flags"].ok <=> risks = <<>>
        /\ risks = <<>> => markers["risk_flags"].note = <<"n","o","n","e">>
        /\ risks # <<>> => markers["risk_flags"].note = RefCommaJoined(risks)

C14_Witness ==
  /\ "markers" \in DOMAIN Agg
  /\ Len(Agg["risks"]) >= 2
  /\ Len(Agg["webHits"]) >= 1
  /\ state["norm"].kind = "plate"

\* ---------------------------------------------------------------- C15

\* C15: normalizeQuery called on the value it returned gives the same kind
\* and the same value again, for every input.
C15_Idempotent ==
  probe.fn = "normalizeQuery twice" =>
    /\ probe.kind2 = probe.kind
    /\ probe.value2 = probe.value

C15_Witness ==
  /\ probe.fn = "normalizeQuery twice"
  /\ probe.arg = PLATE_TYPED
  /\ probe.kind2 = "plate"
  /\ probe.value2 = PLATE_EXAMPLE

\* ---------------------------------------------------------------- C16

\* kw stands somewhere in text.
RefOccurs(text, kw) ==
  \E i \in 0..(Len(text) - Len(kw)) : SubSeq(text, i + 1, i + Len(kw)) = kw

\* The entries of the keyword list that occur in the lower-cased text.
RefFound(text) ==
  LET lower == toLowerCase(text)
  IN  {kw \in Range(RISK_KEYWORDS) : RefOccurs(lower, kw)}

NoDuplicates(seq) == \A i, j \in DOMAIN seq : seq[i] = seq[j] => i = j

FactOrder == <<"Make", "Model", "ModelYear", "BodyClass", "VehicleType", "PlantCountry">>

\* C16 as stated: after the risks stage the risk set has no duplicates and,
\* multiple_auctions apart, is the set of the keywords that occur in the
\* lower-cased serialization of webHits and facts.
C16_Original ==
  (IsRun /\ "risks" \in DOMAIN Agg) =>
    /\ NoDuplicates(Agg["risks"])
    /\ Range(Agg["risks"]) \ {MULTIPLE_AUCTIONS} =
         RefFound(JsonArray(GetOr(Agg, "webHits", <<>>), HitKeys) \o <<" ">>
                    \o JsonStringObject(GetOr(Agg, "facts", EmptyObj), FactOrder))

\* C16 amended: after the risks stage the risk set has no duplicates and,
\* multiple_auctions apart, is the set of the keywords that occur in the
\* lower-cased serialization of webHits and of the decode record nhtsa as
\* the decode collaborator returned it (not of the facts taken from it).
C16_Risks ==
  (IsRun /\ "risks" \in DOMAIN Agg) =>
    /\ NoDuplicates(Agg["risks"])
    /\ Range(Agg["risks"]) \ {MULTIPLE_AUCTIONS} =
         RefFound(JsonArray(GetOr(Agg, "webHits", <<>>), HitKeys) \o <<" ">>
                    \o JsonNhtsa(GetOr(Agg, "nhtsa", EmptyObj)))

C16_Witness ==
  /\ "risks" \in DOMAIN Agg
  /\ Agg["webHits"] = <<>>
  /\ "nhtsa" \in DOMAIN Agg
  /\ Agg["nhtsa"] = [Results |-> <<RowNote>>]
  /\ Agg["risks"] = << <<"s","a","l","v","a","g","e">> >>

\* ---------------------------------------------------------------- C17

\* facts holds a Model that is not the empty text.
FactsHaveModel ==
  /\ "facts" \in DOMAIN Agg
  /\ "Model" \in DOMAIN Agg["facts"]
  /\ Agg["facts"]["Model"] # <<>>

\* The markers vin_checksum and vin_decoded are there exactly when the kind
\* is vin, vin_checksum.note is then the VIN and vin_decoded.ok says that
\* facts holds a Model; okNote is the note of vin_decoded when ok.
VinMarkers(okNote) ==
  (IsRun /\ "markers" \in DOMAIN Agg) =>
    LET markers == Agg["markers"]
        kind == state["norm"].kind
    IN  /\ "vin_checksum" \in DOMAIN markers <=> kind = "vin"
        /\ "vin_decoded" \in DOMAIN markers <=> kind = "vin"
        /\ kind = "vin" =>
             /\ markers["vin_checksum"].note = state["norm"].value
             /\ markers["vin_checksum"].note = Agg["vin"]
             /\ markers["vin_decoded"].ok <=> FactsHaveModel
             /\ markers["vin_decoded"].note =
                  IF markers["vin_decoded"].ok THEN okNote
                  ELSE <<"n","o"," ","d","e","c","o","d","e">>

\* C17 as stated: vin_checksum and vin_decoded are present iff the kind is
\* vin; vin_checksum.note is the VIN; vin_decoded.ok holds iff facts has a
\* non-empty Model; vin_decoded.note is "decoded" when ok, else "no decode".
C17_Original == VinMarkers(<<"d","e","c","o","d","e","d">>)

\* C17 amended: the same, with the note "NHTSA decoded" when vin_decoded.ok.
C17_VinMarkers == VinMarkers(<<"N","H","T","S","A"," ","d","e","c","o","d","e","d">>)

C17_Witness ==
  /\ "markers" \in DOMAIN Agg
  /\ state["norm"].kind = "vin"
  /\ Agg["markers"]["vin_decoded"].ok
  /\ Agg["markers"]["vin_decoded"].note =
       <<"N","H","T","S","A"," ","d","e","c","o","d","e","d">>

\* ---------------------------------------------------------------- C18

\* The first n elements of seq, all of it when it is shorter.
FirstOf(seq, n) == [i \in 1..(IF Len(seq) < n THEN Len(seq) ELSE n) |-> seq[i]]

\* C18: the summarization collaborator is called at most once in a run,
\* and only after the markers stage has finished; its payload holds the
\* aggregate's vin, plate, facts and markers (those that are set) and the
\* first min(8, n) web hits in the order the search returned them; the text
\* it answers with is stored as it is in the field report.
C18_Report ==
  IsRun =>
    /\ Cardinality(CallsTo("model.invoke")) <= 1
    /\ \A i \in CallsTo("model.invoke") :
         LET payload == calls[i].arg
         IN  /\ "markers" \in Range(finished)
             /\ i = Len(calls)
             /\ DOMAIN payload \subseteq {"vin", "plate", "facts", "markers", "hits"}
             /\ \A f \in {"vin", "plate", "facts", "markers"} :
                  /\ f \in DOMAIN payload <=> f \in DOMAIN Agg
                  /\ f \in DOMAIN payload => payload[f] = Agg[f]
             /\ "markers" \in DOMAIN payload
             /\ Len(payload["hits"]) <= 8
             /\ payload["hits"] = FirstOf(GetOr(Agg, "webHits", <<>>), 8)
    /\ "report" \in DOMAIN Agg =>
         /\ CallsTo("model.invoke") # {}
         /\ Agg["report"] = answered
    /\ "report" \notin DOMAIN Agg => answered = undefined

C18_Witness ==
  /\ "report" \in DOMAIN Agg
  /\ Agg["report"] = <<"o", "k">>
  /\ Len(Agg["webHits"]) = 9
  /\ \E i \in CallsTo("model.invoke") :
       /\ Len(calls[i].arg["hits"]) = 8
       /\ "facts" \in DOMAIN calls[i].arg

\* ---------------------------------------------------------------- C19

\* C19: vinValid is set only together with vin, and it is then true (the
\* VIN passes the checksum); so the marker vin_checksum, whenever it is
\* present, has ok = true.
C19_VinValid ==
  IsRun =>
    /\ "vinValid" \in DOMAIN Agg <=> "vin" \in DOMAIN Agg
    /\ "vinValid" \in DOMAIN Agg => Agg["vinValid"] = TRUE /\ RefValidVin(Agg["vin"])
    /\ ("markers" \in DOMAIN Agg /\ "vin_checksum" \in DOMAIN Agg["markers"]) =>
         Agg["markers"]["vin_checksum"].ok = TRUE

C19_Witness ==
  /\ q = VIN_HONDA_TYPED
  /\ "markers" \in DOMAIN Agg
  /\ Agg["markers"]["vin_checksum"] = [ok |-> TRUE, note |-> VIN_HONDA]

\* ---------------------------------------------------------------- C20

\* What the search is to be asked: the normalized value for a VIN or a
\* plate, the input as typed for the unknown kind.
RefQuery ==
  IF state["norm"].kind \in {"vin", "plate"} THEN state["norm"].value ELSE q

\* The search is called only by a web_search stage that began, with
\* RefQuery; the decode is called at most once, only for the kind vin, with
\* the VIN, and before the search.
CallsAsRouted ==
  /\ CallsTo("tv.search") # {} => "web_search" \in Range(started)
  /\ \A i \in CallsTo("tv.search") : calls[i].arg = RefQuery
  /\ Cardinality(CallsTo("nhtsaDecodeVin")) <= 1
  /\ \A j \in CallsTo("nhtsaDecodeVin") :
       /\ state["norm"].kind = "vin"
       /\ calls[j].arg = state["norm"].value
       /\ \A i \in CallsTo("tv.search") : j < i

\* C20 as stated: in every run that reached the web_search stage the search
\* collaborator was called exactly once, with the normalized VIN, the
\* normalized plate or the raw input by kind; the decode collaborator is
\* called at most once, only for the kind vin, and before the search.
C20_Original ==
  IsRun =>
    /\ "web_search" \in Range(started) => Cardinality(CallsTo("tv.search")) = 1
    /\ CallsAsRouted

\* C20 amended: the same for the runs with the search credential set; in a
\* run without it the search collaborator is never called.
C20_Calls ==
  IsRun =>
    /\ ("web_search" \in Range(started) /\ hasKey) =>
         Cardinality(CallsTo("tv.search")) = 1
    /\ ~ hasKey => CallsTo("tv.search") = {}
    /\ CallsAsRouted

C20_Witness ==
  /\ q = <<>>
  /\ caller = "then"
  /\ CallsTo("tv.search") = {1}
  /\ calls[1] = [to |-> "tv.search", arg |-> <<>>]

====
